---- MODULE Spec2Model ----
(***************************************************************************)
(* A model of the X-ray labelling tool of src/xray_labeler.py: the         *)
(* annotation store (load, merge, save), the image file enumerator and the *)
(* interactive viewer (Next, Previous, rectangle selection, Save).         *)
(*                                                                         *)
(* A text is a sequence of characters, each a one-character string or,    *)
(* outside ASCII, the name of its code point ("U+0661"); a CSV row is a    *)
(* sequence of texts.  A float is its shortest decimal; str(float) and     *)
(* float(str) are FormatFloat and ParseFloat.  A Python dict is a sequence *)
(* of [k, v] pairs in insertion order.  Texts are encoded as UTF-8, the    *)
(* file system can hold the output file, and stdout takes every text.      *)
(***************************************************************************)
EXTENDS Integers, Sequences, FiniteSets, TLC

\* ------------------------------------------------------------- bounds
\* longest directory listing (files in the input directory tree)
MaxFiles == 2
\* most rows after the first in a pre-existing output file
MaxRows == 2
\* the widest image is MaxCoord + 1 pixels wide
MaxCoord == 2
\* longest row of pixels of a decoded image
MaxPixels == 3
\* brightest pixel of a decoded image, in steps of PixelStep
MaxLevel == 2

VARIABLES
    pc,                    \* "new", "constructed", "viewing", "terminated"
    exit_code,             \* process exit status, meaningful once terminated
    raised,                \* the last handler, or the constructor, let an exception escape
    tree,                  \* the input directory tree, in traversal order
    disk,                  \* the output file on disk
    disk0,                 \* the output file as it was when the process started
    existing_annotations,  \* self.existing_annotations
    dicom_files,           \* self.dicom_files
    current_index,         \* self.current_index
    annotations,           \* self.annotations
    shown,                 \* what the axes show: "none", "image", "error"
    image,                 \* the pixel array last handed to ax.imshow, <<>> if none
    patches,               \* self.ax.patches, the rectangle outlines on the axes
    last,                  \* the last event handled, with its arguments
    drawn,                 \* a rectangle selection was completed in this session
    saved                  \* Save was pressed, and no rectangle selected since

vars == <<pc, exit_code, raised, tree, disk, disk0, existing_annotations,
          dicom_files, current_index, annotations, shown, image, patches, last, drawn,
          saved>>

\* ------------------------------------------------------------- helpers
Range(s) == {s[i] : i \in DOMAIN s}

SetMax(S) == CHOOSE m \in S : \A n \in S : m >= n

\* the values of a numpy uint8
Uint8 == 256

\* ------------------------------------------------------------- dict
Keys(d) == {d[i].k : i \in DOMAIN d}

Has(d, key) == key \in Keys(d)

Get(d, key) == d[CHOOSE i \in DOMAIN d : d[i].k = key].v

\* d[key] = val: an existing key keeps its place, a new key goes last
Put(d, key, val) ==
    IF Has(d, key)
    THEN [i \in DOMAIN d |-> IF d[i].k = key THEN [k |-> key, v |-> val] ELSE d[i]]
    ELSE Append(d, [k |-> key, v |-> val])

\* {**e, **a}
RECURSIVE Merge(_, _)
Merge(e, a) ==
    IF a = <<>> THEN e ELSE Merge(Put(e, Head(a).k, Head(a).v), Tail(a))

\* ------------------------------------------------------------- numbers as text
\* A character is a one-character string; a character outside printable ASCII
\* is named by its code point, "U+0661".  A text is a sequence of characters.
DigitChar(d) == <<"0", "1", "2", "3", "4", "5", "6", "7", "8", "9">>[d + 1]

\* the decimal digits of Unicode 14 (category Nd) beyond ASCII, 0 to 9 of each
\* script
UnicodeDigits ==
    <<
      <<"U+0660", "U+0661", "U+0662", "U+0663", "U+0664",
        "U+0665", "U+0666", "U+0667", "U+0668", "U+0669">>,
      <<"U+06F0", "U+06F1", "U+06F2", "U+06F3", "U+06F4",
        "U+06F5", "U+06F6", "U+06F7", "U+06F8", "U+06F9">>,
      <<"U+07C0", "U+07C1", "U+07C2", "U+07C3", "U+07C4",
        "U+07C5", "U+07C6", "U+07C7", "U+07C8", "U+07C9">>,
      <<"U+0966", "U+0967", "U+0968", "U+0969", "U+096A",
        "U+096B", "U+096C", "U+096D", "U+096E", "U+096F">>,
      <<"U+09E6", "U+09E7", "U+09E8", "U+09E9", "U+09EA",
        "U+09EB", "U+09EC", "U+09ED", "U+09EE", "U+09EF">>,
      <<"U+0A66", "U+0A67", "U+0A68", "U+0A69", "U+0A6A",
        "U+0A6B", "U+0A6C", "U+0A6D", "U+0A6E", "U+0A6F">>,
      <<"U+0AE6", "U+0AE7", "U+0AE8", "U+0AE9", "U+0AEA",
        "U+0AEB", "U+0AEC", "U+0AED", "U+0AEE", "U+0AEF">>,
      <<"U+0B66", "U+0B67", "U+0B68", "U+0B69", "U+0B6A",
        "U+0B6B", "U+0B6C", "U+0B6D", "U+0B6E", "U+0B6F">>,
      <<"U+0BE6", "U+0BE7", "U+0BE8", "U+0BE9", "U+0BEA",
        "U+0BEB", "U+0BEC", "U+0BED", "U+0BEE", "U+0BEF">>,
      <<"U+0C66", "U+0C67", "U+0C68", "U+0C69", "U+0C6A",
        "U+0C6B", "U+0C6C", "U+0C6D", "U+0C6E", "U+0C6F">>,
      <<"U+0CE6", "U+0CE7", "U+0CE8", "U+0CE9", "U+0CEA",
        "U+0CEB", "U+0CEC", "U+0CED", "U+0CEE", "U+0CEF">>,
      <<"U+0D66", "U+0D67", "U+0D68", "U+0D69", "U+0D6A",
        "U+0D6B", "U+0D6C", "U+0D6D", "U+0D6E", "U+0D6F">>,
      <<"U+0DE6", "U+0DE7", "U+0DE8", "U+0DE9", "U+0DEA",
        "U+0DEB", "U+0DEC", "U+0DED", "U+0DEE", "U+0DEF">>,
      <<"U+0E50", "U+0E51", "U+0E52", "U+0E53", "U+0E54",
        "U+0E55", "U+0E56", "U+0E57", "U+0E58", "U+0E59">>,
      <<"U+0ED0", "U+0ED1", "U+0ED2", "U+0ED3", "U+0ED4",
        "U+0ED5", "U+0ED6", "U+0ED7", "U+0ED8", "U+0ED9">>,
      <<"U+0F20", "U+0F21", "U+0F22", "U+0F23", "U+0F24",
        "U+0F25", "U+0F26", "U+0F27", "U+0F28", "U+0F29">>,
      <<"U+1040", "U+1041", "U+1042", "U+1043", "U+1044",
        "U+1045", "U+1046", "U+1047", "U+1048", "U+1049">>,
      <<"U+1090", "U+1091", "U+1092", "U+1093", "U+1094",
        "U+1095", "U+1096", "U+1097", "U+1098", "U+1099">>,
      <<"U+17E0", "U+17E1", "U+17E2", "U+17E3", "U+17E4",
        "U+17E5", "U+17E6", "U+17E7", "U+17E8", "U+17E9">>,
      <<"U+1810", "U+1811", "U+1812", "U+1813", "U+1814",
        "U+1815", "U+1816", "U+1817", "U+1818", "U+1819">>,
      <<"U+1946", "U+1947", "U+1948", "U+1949", "U+194A",
        "U+194B", "U+194C", "U+194D", "U+194E", "U+194F">>,
      <<"U+19D0", "U+19D1", "U+19D2", "U+19D3", "U+19D4",
        "U+19D5", "U+19D6", "U+19D7", "U+19D8", "U+19D9">>,
      <<"U+1A80", "U+1A81", "U+1A82", "U+1A83", "U+1A84",
        "U+1A85", "U+1A86", "U+1A87", "U+1A88", "U+1A89">>,
      <<"U+1A90", "U+1A91", "U+1A92", "U+1A93", "U+1A94",
        "U+1A95", "U+1A96", "U+1A97", "U+1A98", "U+1A99">>,
      <<"U+1B50", "U+1B51", "U+1B52", "U+1B53", "U+1B54",
        "U+1B55", "U+1B56", "U+1B57", "U+1B58", "U+1B59">>,
      <<"U+1BB0", "U+1BB1", "U+1BB2", "U+1BB3", "U+1BB4",
        "U+1BB5", "U+1BB6", "U+1BB7", "U+1BB8", "U+1BB9">>,
      <<"U+1C40", "U+1C41", "U+1C42", "U+1C43", "U+1C44",
        "U+1C45", "U+1C46", "U+1C47", "U+1C48", "U+1C49">>,
      <<"U+1C50", "U+1C51", "U+1C52", "U+1C53", "U+1C54",
        "U+1C55", "U+1C56", "U+1C57", "U+1C58", "U+1C59">>,
      <<"U+A620", "U+A621", "U+A622", "U+A623", "U+A624",
        "U+A625", "U+A626", "U+A627", "U+A628", "U+A629">>,
      <<"U+A8D0", "U+A8D1", "U+A8D2", "U+A8D3", "U+A8D4",
        "U+A8D5", "U+A8D6", "U+A8D7", "U+A8D8", "U+A8D9">>,
      <<"U+A900", "U+A901", "U+A902", "U+A903", "U+A904",
        "U+A905", "U+A906", "U+A907", "U+A908", "U+A909">>,
      <<"U+A9D0", "U+A9D1", "U+A9D2", "U+A9D3", "U+A9D4",
        "U+A9D5", "U+A9D6", "U+A9D7", "U+A9D8", "U+A9D9">>,
      <<"U+A9F0", "U+A9F1", "U+A9F2", "U+A9F3", "U+A9F4",
        "U+A9F5", "U+A9F6", "U+A9F7", "U+A9F8", "U+A9F9">>,
      <<"U+AA50", "U+AA51", "U+AA52", "U+AA53", "U+AA54",
        "U+AA55", "U+AA56", "U+AA57", "U+AA58", "U+AA59">>,
      <<"U+ABF0", "U+ABF1", "U+ABF2", "U+ABF3", "U+ABF4",
        "U+ABF5", "U+ABF6", "U+ABF7", "U+ABF8", "U+ABF9">>,
      <<"U+FF10", "U+FF11", "U+FF12", "U+FF13", "U+FF14",
        "U+FF15", "U+FF16", "U+FF17", "U+FF18", "U+FF19">>,
      <<"U+104A0", "U+104A1", "U+104A2", "U+104A3", "U+104A4",
        "U+104A5", "U+104A6", "U+104A7", "U+104A8", "U+104A9">>,
      <<"U+10D30", "U+10D31", "U+10D32", "U+10D33", "U+10D34",
        "U+10D35", "U+10D36", "U+10D37", "U+10D38", "U+10D39">>,
      <<"U+11066", "U+11067", "U+11068", "U+11069", "U+1106A",
        "U+1106B", "U+1106C", "U+1106D", "U+1106E", "U+1106F">>,
      <<"U+110F0", "U+110F1", "U+110F2", "U+110F3", "U+110F4",
        "U+110F5", "U+110F6", "U+110F7", "U+110F8", "U+110F9">>,
      <<"U+11136", "U+11137", "U+11138", "U+11139", "U+1113A",
        "U+1113B", "U+1113C", "U+1113D", "U+1113E", "U+1113F">>,
      <<"U+111D0", "U+111D1", "U+111D2", "U+111D3", "U+111D4",
        "U+111D5", "U+111D6", "U+111D7", "U+111D8", "U+111D9">>,
      <<"U+112F0", "U+112F1", "U+112F2", "U+112F3", "U+112F4",
        "U+112F5", "U+112F6", "U+112F7", "U+112F8", "U+112F9">>,
      <<"U+11450", "U+11451", "U+11452", "U+11453", "U+11454",
        "U+11455", "U+11456", "U+11457", "U+11458", "U+11459">>,
      <<"U+114D0", "U+114D1", "U+114D2", "U+114D3", "U+114D4",
        "U+114D5", "U+114D6", "U+114D7", "U+114D8", "U+114D9">>,
      <<"U+11650", "U+11651", "U+11652", "U+11653", "U+11654",
        "U+11655", "U+11656", "U+11657", "U+11658", "U+11659">>,
      <<"U+116C0", "U+116C1", "U+116C2", "U+116C3", "U+116C4",
        "U+116C5", "U+116C6", "U+116C7", "U+116C8", "U+116C9">>,
      <<"U+11730", "U+11731", "U+11732", "U+11733", "U+11734",
        "U+11735", "U+11736", "U+11737", "U+11738", "U+11739">>,
      <<"U+118E0", "U+118E1", "U+118E2", "U+118E3", "U+118E4",
        "U+118E5", "U+118E6", "U+118E7", "U+118E8", "U+118E9">>,
      <<"U+11950", "U+11951", "U+11952", "U+11953", "U+11954",
        "U+11955", "U+11956", "U+11957", "U+11958", "U+11959">>,
      <<"U+11C50", "U+11C51", "U+11C52", "U+11C53", "U+11C54",
        "U+11C55", "U+11C56", "U+11C57", "U+11C58", "U+11C59">>,
      <<"U+11D50", "U+11D51", "U+11D52", "U+11D53", "U+11D54",
        "U+11D55", "U+11D56", "U+11D57", "U+11D58", "U+11D59">>,
      <<"U+11DA0", "U+11DA1", "U+11DA2", "U+11DA3", "U+11DA4",
        "U+11DA5", "U+11DA6", "U+11DA7", "U+11DA8", "U+11DA9">>,
      <<"U+16A60", "U+16A61", "U+16A62", "U+16A63", "U+16A64",
        "U+16A65", "U+16A66", "U+16A67", "U+16A68", "U+16A69">>,
      <<"U+16AC0", "U+16AC1", "U+16AC2", "U+16AC3", "U+16AC4",
        "U+16AC5", "U+16AC6", "U+16AC7", "U+16AC8", "U+16AC9">>,
      <<"U+16B50", "U+16B51", "U+16B52", "U+16B53", "U+16B54",
        "U+16B55", "U+16B56", "U+16B57", "U+16B58", "U+16B59">>,
      <<"U+1D7CE", "U+1D7CF", "U+1D7D0", "U+1D7D1", "U+1D7D2",
        "U+1D7D3", "U+1D7D4", "U+1D7D5", "U+1D7D6", "U+1D7D7">>,
      <<"U+1D7D8", "U+1D7D9", "U+1D7DA", "U+1D7DB", "U+1D7DC",
        "U+1D7DD", "U+1D7DE", "U+1D7DF", "U+1D7E0", "U+1D7E1">>,
      <<"U+1D7E2", "U+1D7E3", "U+1D7E4", "U+1D7E5", "U+1D7E6",
        "U+1D7E7", "U+1D7E8", "U+1D7E9", "U+1D7EA", "U+1D7EB">>,
      <<"U+1D7EC", "U+1D7ED", "U+1D7EE", "U+1D7EF", "U+1D7F0",
        "U+1D7F1", "U+1D7F2", "U+1D7F3", "U+1D7F4", "U+1D7F5">>,
      <<"U+1D7F6", "U+1D7F7", "U+1D7F8", "U+1D7F9", "U+1D7FA",
        "U+1D7FB", "U+1D7FC", "U+1D7FD", "U+1D7FE", "U+1D7FF">>,
      <<"U+1E140", "U+1E141", "U+1E142", "U+1E143", "U+1E144",
        "U+1E145", "U+1E146", "U+1E147", "U+1E148", "U+1E149">>,
      <<"U+1E2F0", "U+1E2F1", "U+1E2F2", "U+1E2F3", "U+1E2F4",
        "U+1E2F5", "U+1E2F6", "U+1E2F7", "U+1E2F8", "U+1E2F9">>,
      <<"U+1E950", "U+1E951", "U+1E952", "U+1E953", "U+1E954",
        "U+1E955", "U+1E956", "U+1E957", "U+1E958", "U+1E959">>,
      <<"U+1FBF0", "U+1FBF1", "U+1FBF2", "U+1FBF3", "U+1FBF4",
        "U+1FBF5", "U+1FBF6", "U+1FBF7", "U+1FBF8", "U+1FBF9">>
    >>

AsciiDigits == {DigitChar(d) : d \in 0..9}

OtherDigits == UNION {Range(UnicodeDigits[b]) : b \in DOMAIN UnicodeDigits}

\* a character float() reads as a decimal digit
IsDigit(c) == c \in AsciiDigits \/ c \in OtherDigits

DigitVal(c) ==
    IF c \in AsciiDigits
    THEN CHOOSE d \in 0..9 : DigitChar(d) = c
    ELSE CHOOSE d \in 0..9 : \E b \in DOMAIN UnicodeDigits : UnicodeDigits[b][d + 1] = c

\* the characters float() strips from both ends: Py_ISSPACE, and the other
\* Unicode whitespace, which it first turns into spaces
Whitespace ==
    {" ", "\t", "\n", "\r", "\f", "U+000B", "U+0085", "U+00A0", "U+1680",
     "U+2000", "U+2001", "U+2002", "U+2003", "U+2004", "U+2005", "U+2006",
     "U+2007", "U+2008", "U+2009", "U+200A", "U+2028", "U+2029", "U+202F",
     "U+205F", "U+3000"}

\* the letters of inf, infinity and nan, in either case
LowerOf(c) ==
    CASE c \in {"i", "I"} -> "i"
      [] c \in {"n", "N"} -> "n"
      [] c \in {"f", "F"} -> "f"
      [] c \in {"t", "T"} -> "t"
      [] c \in {"y", "Y"} -> "y"
      [] c \in {"a", "A"} -> "a"
      [] OTHER -> c

\* the decimal digits of n >= 0, and the number a sequence of digits writes
RECURSIVE DigitsOf(_)
DigitsOf(n) == IF n < 10 THEN <<n>> ELSE Append(DigitsOf(n \div 10), n % 10)

RECURSIVE DigitsVal(_)
DigitsVal(ds) ==
    IF ds = <<>> THEN 0
    ELSE 10 * DigitsVal(SubSeq(ds, 1, Len(ds) - 1)) + ds[Len(ds)]

RECURSIVE Pow(_, _)
Pow(b, n) == IF n = 0 THEN 1 ELSE b * Pow(b, n - 1)

\* ------------------------------------------------------------- floats
\* A float is the shortest decimal that reads back as it, which is what
\* repr() writes: the digits ds (no zero at either end, none at all for zero)
\* and the place pe of the decimal point, 0.ds * 10^pe; or an infinity; or
\* nan.  Two doubles are equal exactly if their shortest decimals are, and
\* ordered as they are.
Finite(neg, ds, pe) == [kind |-> "fin", neg |-> neg, ds |-> ds, pe |-> pe]

Zero(neg) == Finite(neg, <<>>, 0)

Inf(neg) == [kind |-> "inf", neg |-> neg, ds |-> <<>>, pe |-> 0]

NaN == [kind |-> "nan", neg |-> FALSE, ds |-> <<>>, pe |-> 0]

IsZero(v) == v.kind = "fin" /\ v.ds = <<>>

\* ds without the zeros it starts with
DropLeft(ds) ==
    IF \A i \in DOMAIN ds : ds[i] = 0 THEN <<>>
    ELSE SubSeq(ds, CHOOSE i \in DOMAIN ds :
                        ds[i] # 0 /\ \A j \in 1..(i - 1) : ds[j] = 0,
                Len(ds))

\* ds without the zeros it ends with
DropRight(ds) ==
    IF \A i \in DOMAIN ds : ds[i] = 0 THEN <<>>
    ELSE SubSeq(ds, 1, CHOOSE i \in DOMAIN ds :
                           ds[i] # 0 /\ \A j \in (i + 1)..Len(ds) : ds[j] = 0)

\* the i-th digit after the point of 0.a
DigitAt(a, i) == IF i <= Len(a) THEN a[i] ELSE 0

\* 0.a < 0.b for digit sequences
DigitsLess(a, b) ==
    \E i \in 1..(IF Len(a) > Len(b) THEN Len(a) ELSE Len(b)) :
        /\ DigitAt(a, i) < DigitAt(b, i)
        /\ \A j \in 1..(i - 1) : DigitAt(a, j) = DigitAt(b, j)

\* --- whole numbers of any size, as their decimal digits (<<>> is 0)
NatLess(a, b) == Len(a) < Len(b) \/ (Len(a) = Len(b) /\ DigitsLess(a, b))

Twice(a) ==
    (IF a # <<>> /\ a[1] >= 5 THEN <<1>> ELSE <<>>) \o
    [i \in DOMAIN a |->
        (2 * a[i] + (IF i < Len(a) /\ a[i + 1] >= 5 THEN 1 ELSE 0)) % 10]

\* a \div 2
Half(a) ==
    DropLeft([i \in DOMAIN a |->
                 (a[i] + (IF i > 1 /\ a[i - 1] % 2 = 1 THEN 10 ELSE 0)) \div 2])

RECURSIVE Succ(_)
Succ(a) ==
    IF a = <<>> THEN <<1>>
    ELSE IF a[Len(a)] < 9 THEN [a EXCEPT ![Len(a)] = @ + 1]
    ELSE Append(Succ(SubSeq(a, 1, Len(a) - 1)), 0)

\* a - 1, of a > 0
RECURSIVE Pred(_)
Pred(a) ==
    IF a[Len(a)] > 0 THEN DropLeft([a EXCEPT ![Len(a)] = @ - 1])
    ELSE Append(Pred(SubSeq(a, 1, Len(a) - 1)), 9)

RECURSIVE AddDigits(_, _, _)
\* the upper h digits added to the sum low of the lower ones
AddHigh(a, b, h, low) ==
    IF low[1] = 0 THEN AddDigits(SubSeq(a, 1, h), SubSeq(b, 1, h), 0) \o Tail(low)
    ELSE AddDigits(SubSeq(a, 1, h), SubSeq(b, 1, h), 1) \o Tail(low)

\* a + b + c of two numbers written with equally many digits and a carry c,
\* with one digit more, the carry out
AddDigits(a, b, c) ==
    IF a = <<>> THEN <<c>>
    ELSE IF Len(a) = 1 THEN <<(a[1] + b[1] + c) \div 10, (a[1] + b[1] + c) % 10>>
    ELSE AddHigh(a, b, Len(a) \div 2,
                 AddDigits(SubSeq(a, Len(a) \div 2 + 1, Len(a)),
                           SubSeq(b, Len(a) \div 2 + 1, Len(a)), c))

RECURSIVE SubDigits(_, _, _)
\* the upper h digits less the borrow of the lower ones
SubHigh(a, b, h, low) ==
    IF low[1] = 0 THEN SubDigits(SubSeq(a, 1, h), SubSeq(b, 1, h), 0) \o Tail(low)
    ELSE SubDigits(SubSeq(a, 1, h), SubSeq(b, 1, h), 1) \o Tail(low)

\* a - b - c of two numbers written with equally many digits and a borrow c,
\* with one digit more, the borrow out
SubDigits(a, b, c) ==
    IF a = <<>> THEN <<c>>
    ELSE IF Len(a) = 1
    THEN <<IF a[1] - b[1] - c < 0 THEN 1 ELSE 0, (a[1] - b[1] - c + 10) % 10>>
    ELSE SubHigh(a, b, Len(a) \div 2,
                 SubDigits(SubSeq(a, Len(a) \div 2 + 1, Len(a)),
                           SubSeq(b, Len(a) \div 2 + 1, Len(a)), c))

\* k zeros, none if k < 0
Zeros(k) == IF k > 0 THEN [i \in 1..k |-> 0] ELSE <<>>

\* --- a number n / 10^s, n a whole number
Fixed(n, s) == [n |-> n, s |-> s]

TwiceFixed(x) == Fixed(Twice(x.n), x.s)

\* x / 2, exactly
HalfFixed(x) ==
    IF x.n = <<>> \/ x.n[Len(x.n)] % 2 = 0 THEN Fixed(Half(x.n), x.s)
    ELSE Fixed(Half(Append(x.n, 0)), x.s + 1)

\* x * 2^q, by halves of q
RECURSIVE Shift(_, _)
Shift(x, q) ==
    IF x.n = <<>> \/ q = 0 THEN x
    ELSE IF q = 1 THEN TwiceFixed(x)
    ELSE IF q = -1 THEN HalfFixed(x)
    ELSE Shift(Shift(x, q \div 2), q - q \div 2)

\* the whole part of x and the digits of its fraction
Whole(x) == IF Len(x.n) > x.s THEN SubSeq(x.n, 1, Len(x.n) - x.s) ELSE <<>>

Fraction(x) ==
    IF Len(x.n) >= x.s THEN SubSeq(x.n, Len(x.n) - x.s + 1, Len(x.n))
    ELSE Zeros(x.s - Len(x.n)) \o x.n

\* 0.ds * 10^pe
FixedOf(ds, pe) ==
    IF pe >= Len(ds) THEN Fixed(ds \o Zeros(pe - Len(ds)), 0)
    ELSE Fixed(ds, Len(ds) - pe)

\* x > 0 as digits without a zero at either end and the place of its point
DecimalOf(x) == [ds |-> DropRight(x.n), pe |-> Len(x.n) - x.s]

\* a < b for such decimals
DecimalLess(a, b) == a.pe < b.pe \/ (a.pe = b.pe /\ DigitsLess(a.ds, b.ds))

\* --- a double is m * 2^q with m under 2^53, and at least 2^52 unless q is
\* the least exponent
TwoTo52 == <<4, 5, 0, 3, 5, 9, 9, 6, 2, 7, 3, 7, 0, 4, 9, 6>>

TwoTo53 == <<9, 0, 0, 7, 1, 9, 9, 2, 5, 4, 7, 4, 0, 9, 9, 2>>

MinExp == -1074

MaxExp == 971

\* x * 2^q rewritten until the whole part of x has 53 bits, or q is the least
\* exponent
RECURSIVE Normal(_, _)
Normal(x, q) ==
    IF ~NatLess(Whole(x), TwoTo53) THEN Normal(HalfFixed(x), q + 1)
    ELSE IF NatLess(Whole(x), TwoTo52) /\ q > MinExp THEN Normal(TwiceFixed(x), q - 1)
    ELSE [x |-> x, q |-> q]

\* a fraction f rounds the whole part w up: above a half, or a half and w odd
RoundsUp(w, f) ==
    /\ f # <<>>
    /\ \/ f[1] > 5
       \/ /\ f[1] = 5
          /\ \/ \E i \in 2..Len(f) : f[i] # 0
             \/ (w # <<>> /\ w[Len(w)] % 2 = 1)

Carried(m, q) ==
    IF m = TwoTo53 THEN [m |-> TwoTo52, q |-> q + 1] ELSE [m |-> m, q |-> q]

\* the double nearest to x * 2^q, ties to the even m
Rounded(x, q) ==
    Carried(IF RoundsUp(Whole(x), Fraction(x)) THEN Succ(Whole(x)) ELSE Whole(x), q)

Binary(r) == Rounded(r.x, r.q)

\* 2^q is about 0.1 * 10^pe / 2^52, and no less than the least exponent
NearExp(pe) ==
    IF ((pe - 1) * 33219) \div 10000 - 52 < MinExp THEN MinExp
    ELSE ((pe - 1) * 33219) \div 10000 - 52

NormalFrom(x, q) == Normal(Shift(x, -q), q)

\* the double nearest to 0.ds * 10^pe
ToDouble(ds, pe) == Binary(NormalFrom(FixedOf(ds, pe), NearExp(pe)))

\* the doubles between lo and hi read back as the double e lies in, the ends
\* too if closed; e cut after k digits and rounded down, up or to the nearest
CutDown(e, k) == [ds |-> DropRight(SubSeq(e.ds, 1, k)), pe |-> e.pe]

Raised(u, k, pe) ==
    IF Len(u) > k THEN [ds |-> <<1>>, pe |-> pe + 1] ELSE [ds |-> DropRight(u), pe |-> pe]

CutUp(e, k) == Raised(Succ(SubSeq(e.ds, 1, k)), k, e.pe)

CutNearest(e, k) ==
    IF RoundsUp(SubSeq(e.ds, 1, k), SubSeq(e.ds, k + 1, Len(e.ds)))
    THEN CutUp(e, k) ELSE CutDown(e, k)

Inside(c, lo, hi, closed) ==
    IF closed THEN ~DecimalLess(c, lo) /\ ~DecimalLess(hi, c)
    ELSE DecimalLess(lo, c) /\ DecimalLess(c, hi)

\* the shortest decimal between lo and hi, the nearest to e of that length
RECURSIVE Shortest(_, _, _, _, _)
Shortest(e, lo, hi, closed, k) ==
    IF k >= Len(e.ds) THEN e
    ELSE IF Inside(CutDown(e, k), lo, hi, closed)
    THEN (IF Inside(CutUp(e, k), lo, hi, closed) THEN CutNearest(e, k)
          ELSE CutDown(e, k))
    ELSE IF Inside(CutUp(e, k), lo, hi, closed) THEN CutUp(e, k)
    ELSE Shortest(e, lo, hi, closed, k + 1)

\* halfway from the double m * 2^q to the one below and to the one above
HalfBelow(m, q) ==
    IF m = TwoTo52 /\ q > MinExp THEN Shift(Fixed(Pred(Twice(Twice(m))), 0), q - 2)
    ELSE Shift(Fixed(Pred(Twice(m)), 0), q - 1)

HalfAbove(m, q) == Shift(Fixed(Succ(Twice(m)), 0), q - 1)

\* the digits repr() writes for the double m * 2^q
ShortestOf(m, q) ==
    Shortest(DecimalOf(Shift(Fixed(m, 0), q)), DecimalOf(HalfBelow(m, q)),
             DecimalOf(HalfAbove(m, q)), m[Len(m)] % 2 = 0, 1)

FiniteOf(neg, d) == Finite(neg, d.ds, d.pe)

\* the float of a double: beyond the largest one, infinity
FloatOfDouble(neg, b) ==
    IF b.m = <<>> THEN Zero(neg)
    ELSE IF b.q > MaxExp THEN Inf(neg)
    ELSE FiniteOf(neg, ShortestOf(b.m, b.q))

\* a decimal of at most 15 digits (DBL_DIG) in the normal range is the
\* shortest decimal of the double nearest to it
IsShort(ds, p) == Len(ds) <= 15 /\ p \in -306..308

\* the double nearest to (-1)^neg * 0.ds * 10^p, ds without a zero at either
\* end
NearestTo(neg, ds, p) ==
    IF ds = <<>> THEN Zero(neg)
    ELSE IF p > 309 THEN Inf(neg)
    ELSE IF p < -323 THEN Zero(neg)
    ELSE IF IsShort(ds, p) THEN Finite(neg, ds, p)
    ELSE FloatOfDouble(neg, ToDouble(ds, p))

\* the double nearest to (-1)^neg * 0.digits * 10^pe
Nearest(neg, digits, pe) ==
    NearestTo(neg, DropRight(DropLeft(digits)),
              pe - (Len(digits) - Len(DropLeft(digits))))

\* float(n) of an integer n scaled by 10^e
Scaled(n, e) ==
    LET ds == DigitsOf(IF n < 0 THEN -n ELSE n)
    IN  Nearest(n < 0, ds, Len(ds) + e)

FloatOf(n) == Scaled(n, 0)

\* repr(v), which is str(v) and what csv.writer writes: 1.0, -0.5, 1e+16, 1e-05
FormatFloat(v) ==
    LET sign == IF v.neg THEN <<"-">> ELSE <<>>
        n == Len(v.ds)
        d == [i \in 1..n |-> DigitChar(v.ds[i])]
        zeros(k) == [i \in 1..k |-> "0"]
        e == v.pe - 1
        t == DigitsOf(IF e < 0 THEN -e ELSE e)
        ee == [i \in DOMAIN t |-> DigitChar(t[i])]
    IN  CASE v.kind = "nan" -> <<"n", "a", "n">>
          [] v.kind = "inf" -> sign \o <<"i", "n", "f">>
          [] IsZero(v) -> sign \o <<"0", ".", "0">>
          [] OTHER ->
             sign \o
             (IF -4 < v.pe /\ v.pe <= 16
              THEN IF v.pe <= 0 THEN <<"0", ".">> \o zeros(-v.pe) \o d
                   ELSE IF v.pe >= n THEN d \o zeros(v.pe - n) \o <<".", "0">>
                   ELSE SubSeq(d, 1, v.pe) \o <<".">> \o SubSeq(d, v.pe + 1, n)
              ELSE <<d[1]>> \o (IF n > 1 THEN <<".">> \o SubSeq(d, 2, n) ELSE <<>>)
                   \o <<"e", IF e < 0 THEN "-" ELSE "+">>
                   \o (IF Len(ee) < 2 THEN <<"0">> ELSE <<>>) \o ee)

\* t without the whitespace around it
Strip(t) ==
    IF \A i \in DOMAIN t : t[i] \in Whitespace THEN <<>>
    ELSE SubSeq(t,
                CHOOSE i \in DOMAIN t :
                    t[i] \notin Whitespace /\ \A j \in 1..(i - 1) : t[j] \in Whitespace,
                CHOOSE i \in DOMAIN t :
                    t[i] \notin Whitespace /\ \A j \in (i + 1)..Len(t) : t[j] \in Whitespace)

\* PEP 515: an underscore stands only between two digits
UnderscoresOk(t) ==
    \A i \in DOMAIN t :
        t[i] = "_" => /\ i > 1 /\ IsDigit(t[i - 1])
                      /\ i < Len(t) /\ IsDigit(t[i + 1])

\* the longest run of digits t begins with
DigitRun(t) ==
    IF \A i \in DOMAIN t : IsDigit(t[i]) THEN t
    ELSE SubSeq(t, 1, (CHOOSE i \in DOMAIN t :
                           ~IsDigit(t[i]) /\ \A j \in 1..(i - 1) : IsDigit(t[j])) - 1)

DigitValues(t) == [i \in DOMAIN t |-> DigitVal(t[i])]

\* the value of an exponent's digits; one of ten digits or more is cut to nine
\* nines, which the digits of no text of under 10^9 characters make up for
ExponentVal(t) ==
    LET ds == DropLeft(DigitValues(t))
    IN  IF Len(ds) > 9 THEN 999999999 ELSE DigitsVal(ds)

\* float() of a text that is no number raises ValueError
ParseFail == [ok |-> FALSE, val |-> Zero(FALSE)]

\* the digits ed of an exponent, after its sign
ParseExponentDigits(minus, ed) ==
    IF ed # <<>> /\ \A i \in DOMAIN ed : IsDigit(ed[i])
    THEN [ok |-> TRUE, ex |-> IF minus THEN -ExponentVal(ed) ELSE ExponentVal(ed)]
    ELSE [ok |-> FALSE, ex |-> 0]

\* what follows the digits of a decimal: nothing, or e or E, an optional sign
\* and digits
ParseExponent(r) ==
    IF r = <<>> THEN [ok |-> TRUE, ex |-> 0]
    ELSE IF r[1] \notin {"e", "E"} THEN [ok |-> FALSE, ex |-> 0]
    ELSE IF Len(r) > 1 /\ r[2] \in {"-", "+"}
    THEN ParseExponentDigits(r[2] = "-", SubSeq(r, 3, Len(r)))
    ELSE ParseExponentDigits(FALSE, Tail(r))

\* the double of the integer digits ip, the fraction digits fp and the
\* exponent e: at least one digit is needed
ParseDigits(neg, ip, fp, e) ==
    IF ip \o fp # <<>> /\ e.ok
    THEN [ok |-> TRUE, val |-> Nearest(neg, DigitValues(ip \o fp), Len(ip) + e.ex)]
    ELSE ParseFail

\* the fraction digits fp at the start of r, the text after the point
ParseFraction(neg, ip, fp, r) ==
    ParseDigits(neg, ip, fp, ParseExponent(SubSeq(r, Len(fp) + 1, Len(r))))

\* a decimal that starts with the digits ip: digits, optionally a point and
\* digits, optionally an exponent
ParseDecimal(neg, body, ip) ==
    IF Len(body) > Len(ip) /\ body[Len(ip) + 1] = "."
    THEN ParseFraction(neg, ip, DigitRun(SubSeq(body, Len(ip) + 2, Len(body))),
                       SubSeq(body, Len(ip) + 2, Len(body)))
    ELSE ParseDigits(neg, ip, <<>>,
                     ParseExponent(SubSeq(body, Len(ip) + 1, Len(body))))

\* what follows the sign: inf, infinity or nan in any case, or a decimal
ParseUnsigned(neg, body) ==
    IF [i \in DOMAIN body |-> LowerOf(body[i])]
           \in {<<"i", "n", "f">>, <<"i", "n", "f", "i", "n", "i", "t", "y">>}
    THEN [ok |-> TRUE, val |-> Inf(neg)]
    ELSE IF [i \in DOMAIN body |-> LowerOf(body[i])] = <<"n", "a", "n">>
    THEN [ok |-> TRUE, val |-> NaN]
    ELSE ParseDecimal(neg, body, DigitRun(body))

\* a text without whitespace around it or underscores in it
ParseSigned(u) ==
    IF u # <<>> /\ u[1] \in {"-", "+"}
    THEN ParseUnsigned(u[1] = "-", Tail(u))
    ELSE ParseUnsigned(FALSE, u)

\* a text without whitespace around it
ParseStripped(s) ==
    IF UnderscoresOk(s) THEN ParseSigned(SelectSeq(s, LAMBDA c : c # "_"))
    ELSE ParseFail

\* float(t): whitespace stripped, then [sign] (inf | infinity | nan | decimal
\* [exponent]); anything else raises ValueError (ok = FALSE)
ParseFloat(t) == ParseStripped(Strip(t))

\* a < b on floats; false whenever either is nan, and -0.0 is not under 0.0
FloatLess(a, b) ==
    LET under(v) == v.neg /\ ~IsZero(v) /\ v.kind # "nan"
        smaller(v, w) ==
            IF v.kind = "inf" THEN FALSE
            ELSE IF w.kind = "inf" THEN TRUE
            ELSE IF IsZero(w) THEN FALSE
            ELSE IF IsZero(v) THEN TRUE
            ELSE v.pe < w.pe \/ (v.pe = w.pe /\ DigitsLess(v.ds, w.ds))
    IN  IF a.kind = "nan" \/ b.kind = "nan" THEN FALSE
        ELSE IF under(a) # under(b) THEN under(a)
        ELSE IF under(a) THEN smaller(b, a)
        ELSE smaller(a, b)

\* Python's min(a, b): b if b < a, else a
min(a, b) == IF FloatLess(b, a) THEN b ELSE a

\* Python's abs()
abs(v) == [v EXCEPT !.neg = FALSE]

\* v = Mantissa(v) * 10^Exponent(v)
Mantissa(v) == IF v.neg THEN -DigitsVal(v.ds) ELSE DigitsVal(v.ds)

Exponent(v) == v.pe - Len(v.ds)

\* v is a fraction of a power of two under 10^4 with at most four decimals:
\* arithmetic on such floats is exact, and in units of 10^-4 stays under 10^9
IsBinaryFraction(v) ==
    /\ v.kind = "fin"
    /\ Len(v.ds) <= 4
    /\ v.pe <= 4
    /\ Exponent(v) >= -4
    /\ Exponent(v) >= 0 \/ Mantissa(v) % Pow(5, -Exponent(v)) = 0

\* a - b of two such floats
MinusSmall(a, b, e) ==
    Scaled(Mantissa(a) * Pow(10, Exponent(a) - e)
               - Mantissa(b) * Pow(10, Exponent(b) - e), e)

\* the double a finite float stands for, written out in full
ExactOfDouble(b) == Shift(Fixed(b.m, 0), b.q)

ExactOf(v) ==
    IF IsZero(v) THEN Fixed(<<>>, 0) ELSE ExactOfDouble(ToDouble(v.ds, v.pe))

\* the double nearest to n / 10^s, negative if neg
NearestFixed(neg, n, s) ==
    Nearest(neg /\ \E i \in DOMAIN n : n[i] # 0, n, Len(n) - s)

\* x - y of whole numbers written with equally many digits, each negative if
\* its sign says so, over 10^s
MinusDigits(xneg, x, yneg, y, s) ==
    IF xneg # yneg THEN NearestFixed(xneg, AddDigits(x, y, 0), s)
    ELSE IF DigitsLess(x, y) THEN NearestFixed(~xneg, SubDigits(y, x, 0), s)
    ELSE NearestFixed(xneg, SubDigits(x, y, 0), s)

\* x - y of two numbers over 10^s
MinusAligned(xneg, x, yneg, y, s) ==
    MinusDigits(xneg, Zeros(Len(y) - Len(x)) \o x, yneg, Zeros(Len(x) - Len(y)) \o y, s)

MinusFixed(xneg, x, yneg, y) ==
    MinusAligned(xneg, x.n \o Zeros(y.s - x.s), yneg, y.n \o Zeros(x.s - y.s),
                 IF x.s > y.s THEN x.s ELSE y.s)

\* a - b on floats, rounded to the nearest double
Minus(a, b) ==
    IF a.kind = "nan" \/ b.kind = "nan" THEN NaN
    ELSE IF a.kind = "inf" /\ b.kind = "inf" THEN (IF a.neg = b.neg THEN NaN ELSE a)
    ELSE IF a.kind = "inf" THEN a
    ELSE IF b.kind = "inf" THEN Inf(~b.neg)
    ELSE IF IsZero(a) /\ IsZero(b) THEN Zero(a.neg /\ ~b.neg)
    ELSE IF IsBinaryFraction(a) /\ IsBinaryFraction(b)
    THEN MinusSmall(a, b, IF Exponent(a) < Exponent(b) THEN Exponent(a) ELSE Exponent(b))
    ELSE MinusFixed(a.neg, ExactOf(a), b.neg, ExactOf(b))

\* ------------------------------------------------------------- files
\* the characters of an ASCII string
Text(s) == [i \in 1..Len(s) |-> SubSeq(s, i, i)]

FileName(stem, ext) == Text(stem) \o <<".">> \o Text(ext)

\* the glob pattern *.ext matches a name
Matches(name, ext) ==
    /\ Len(name) > Len(ext)
    /\ SubSeq(name, Len(name) - Len(ext), Len(name)) = <<".">> \o Text(ext)

\* a lone surrogate, which os.fsdecode puts for a byte of a file name that is
\* no UTF-8
IsSurrogate(c) ==
    Len(c) = 6 /\ SubSeq(c, 1, 3) = "U+D" /\ SubSeq(c, 4, 4) \in {"8", "9", "A", "B", "C", "D", "E", "F"}

\* the text file object encodes the text; on a lone surrogate it raises
\* UnicodeEncodeError
Encodable(t) == SelectSeq(t, IsSurrogate) = <<>>

Rect(x, y, w, h) == [x |-> x, y |-> y, width |-> w, height |-> h]

\* a rectangle given in tenths
Box(x, y, w, h) == Rect(Scaled(x, -1), Scaled(y, -1), Scaled(w, -1), Scaled(h, -1))

Header == <<Text("filename"), Text("x"), Text("y"), Text("width"), Text("height")>>

Absent == [exists |-> FALSE, rows |-> <<>>]

File(rows) == [exists |-> TRUE, rows |-> rows]

\* one written row
RowOf(name, ann) ==
    <<name, FormatFloat(ann.x), FormatFloat(ann.y),
      FormatFloat(ann.width), FormatFloat(ann.height)>>

\* ------------------------------------------------------------- the program
\* csv.field_size_limit(): the most characters of a field csv.reader reads
FieldLimit == 131072

\* csv.reader yields the row; on a field over the limit it raises _csv.Error
Readable(row) == \A i \in DOMAIN row : Len(row[i]) <= FieldLimit

\* load_existing_annotations: the rows after the first, in order
RECURSIVE LoadRows(_, _)
LoadRows(rows, d) ==
    IF rows = <<>> THEN [ok |-> TRUE, d |-> d]
    ELSE IF ~Readable(Head(rows)) THEN [ok |-> FALSE, d |-> d]
    ELSE LET row == Head(rows) IN
         IF Len(row) >= 5
         THEN LET x == ParseFloat(row[2])
                  y == ParseFloat(row[3])
                  w == ParseFloat(row[4])
                  h == ParseFloat(row[5])
              IN  IF x.ok /\ y.ok /\ w.ok /\ h.ok
                  THEN LoadRows(Tail(rows),
                                Put(d, row[1], Rect(x.val, y.val, w.val, h.val)))
                  ELSE [ok |-> FALSE, d |-> d]
         ELSE LoadRows(Tail(rows), d)

\* ok = FALSE: next(reader) on a file with no row, the reader on a field over
\* its limit, or float() on a field that is no number, raised
load_existing_annotations(f) ==
    IF ~f.exists THEN [ok |-> TRUE, d |-> <<>>]
    ELSE IF f.rows = <<>> THEN [ok |-> FALSE, d |-> <<>>]
    ELSE IF ~Readable(Head(f.rows)) THEN [ok |-> FALSE, d |-> <<>>]
    ELSE LoadRows(Tail(f.rows), <<>>)

\* input_dir.glob('**/*.ext'), in traversal order
Glob(t, ext) == SelectSeq(t, LAMBDA f : Matches(f.name, ext))

\* scan_directory with the three searches always joined
ScanAllFormats(t) ==
    [files |-> Glob(t, "dcm") \o Glob(t, "jpg") \o Glob(t, "png"),
     exit |-> Glob(t, "dcm") \o Glob(t, "jpg") \o Glob(t, "png") = <<>>]

\* scan_directory without the sys.exit(1)
ScanWithoutExit(t) ==
    IF Glob(t, "dcm") # <<>>
    THEN [files |-> Glob(t, "dcm"), exit |-> FALSE]
    ELSE [files |-> Glob(t, "jpg") \o Glob(t, "png"), exit |-> FALSE]

\* scan_directory: the file list, and whether sys.exit(1) was called
scan_directory(t) ==
    IF Glob(t, "dcm") # <<>>
    THEN [files |-> Glob(t, "dcm"), exit |-> FALSE]
    ELSE [files |-> Glob(t, "jpg") \o Glob(t, "png"),
          exit |-> Glob(t, "jpg") \o Glob(t, "png") = <<>>]

\* the width on screen of the axes, in screen pixels: figsize=(10, 10) in a
\* window the user has made small
AxesSpan == 12

\* minspanx=5, minspany=5, spancoords='pixels': a drag must span more than
\* this on screen, in both directions, for the selector to call on_select (a
\* span of exactly this much, which library versions treat differently, is
\* none of the spans between the pointer positions below)
MinSpan == 5

\* the pointer positions of the model along an axis of n image pixels drawn
\* zoom screen pixels each: the pixel edges, with the coordinate imshow gives
\* them (the first pixel covers -0.5 to 0.5)
EdgePoints(n, zoom) ==
    {[p |-> k * zoom, data |-> Scaled(10 * k - 5, -1)] : k \in 0..n}

\* under the error text ax.clear() has left the axes at 0..1
UnitPoints == {[p |-> 0, data |-> FloatOf(0)], [p |-> AxesSpan, data |-> FloatOf(1)]}

\* aspect 'equal': the longer side of the image fills the axes
Zoom(f) == AxesSpan \div (IF f.size > f.height THEN f.size ELSE f.height)

\* the pointer positions along x
Extent(f) == IF f.size = 0 THEN UnitPoints ELSE EdgePoints(f.size, Zoom(f))

\* the pointer positions along y
ExtentY(f) == IF f.size = 0 THEN UnitPoints ELSE EdgePoints(f.height, Zoom(f))

\* the RectangleSelector passes a drag on to on_select
Accepted(a, b) == (IF a.p > b.p THEN a.p - b.p ELSE b.p - a.p) > MinSpan

\* the sequences that take their i-th element from the i-th set
RECURSIVE Product(_)
Product(sets) ==
    IF sets = <<>> THEN {<<>>}
    ELSE {<<h>> \o t : h \in Head(sets), t \in Product(Tail(sets))}

\* astype(np.uint8) of p / m * 255: the quotient cut towards zero where that
\* is a uint8; elsewhere the C cast is undefined and any uint8 can come out
CastUint8(p, m) ==
    LET q == IF p >= 0 THEN (p * 255) \div m ELSE -((-p * 255) \div m)
    IN  IF q \in 0..(Uint8 - 1) THEN {q} ELSE 0..(Uint8 - 1)

\* the rescale with the guard at != 0 instead of > 0
NormalizeNonZero(px) ==
    LET m == SetMax(Range(px))
    IN  IF m # 0
        THEN Product([i \in DOMAIN px |->
                         CastUint8(IF m < 0 THEN -px[i] ELSE px[i],
                                   IF m < 0 THEN -m ELSE m)])
        ELSE {px}

\* lines 132-134: (image / image.max() * 255).astype(np.uint8) if the largest
\* pixel is positive, the decoded array itself otherwise; px is the array
\* flattened, never empty; the arrays that can come out
Normalize(px) ==
    LET m == SetMax(Range(px))
    IN  IF m > 0 THEN Product([i \in DOMAIN px |-> CastUint8(px[i], m)]) ELSE {px}

\* draw_annotations: every outline removed, then the one of the current file
draw_annotations(ann, name) ==
    IF Has(ann, name)
    THEN <<Rect(Get(ann, name).x, Get(ann, name).y,
                Get(ann, name).width, Get(ann, name).height)>>
    ELSE <<>>

\* files[idx] as Python indexes a list: from the end for a negative idx
InRange(files, idx) == -Len(files) <= idx /\ idx < Len(files)

Item(files, idx) == files[IF idx < 0 THEN Len(files) + idx + 1 ELSE idx + 1]

\* load_current_image without the outer try/except: the decode failure escapes
LoadWithoutTry(files, idx, existing, ann, sh, im, pt) ==
    IF files = <<>>
    THEN {[annotations |-> ann, shown |-> sh, image |-> im, patches |-> pt,
           raised |-> FALSE]}
    ELSE IF ~InRange(files, idx)
    THEN {[annotations |-> ann, shown |-> "none", image |-> <<>>, patches |-> <<>>,
           raised |-> TRUE]}
    ELSE LET f == Item(files, idx) IN
         IF f.size = 0
         THEN {[annotations |-> ann, shown |-> "none", image |-> <<>>,
                patches |-> <<>>, raised |-> TRUE]}
         ELSE LET a2 == IF Has(existing, f.name)
                        THEN Put(ann, f.name, Get(existing, f.name))
                        ELSE ann
              IN  {[annotations |-> a2, shown |-> "image", image |-> img,
                    patches |-> draw_annotations(a2, f.name), raised |-> FALSE] :
                      img \in Normalize(f.pix)}

\* load_current_image: the outcomes of a render (one, unless the cast of the
\* rescale is undefined); raised is the IndexError of line 119, outside the
\* try; a file of size 0 is one neither decoder reads
load_current_image(files, idx, existing, ann, sh, im, pt) ==
    IF files = <<>>
    THEN {[annotations |-> ann, shown |-> sh, image |-> im, patches |-> pt,
           raised |-> FALSE]}
    ELSE IF ~InRange(files, idx)
    THEN {[annotations |-> ann, shown |-> "none", image |-> <<>>, patches |-> <<>>,
           raised |-> TRUE]}
    ELSE LET f == Item(files, idx) IN
         IF f.size = 0
         THEN {[annotations |-> ann, shown |-> "error", image |-> <<>>,
                patches |-> <<>>, raised |-> FALSE]}
         ELSE LET a2 == IF Has(existing, f.name)
                        THEN Put(ann, f.name, Get(existing, f.name))
                        ELSE ann
              IN  {[annotations |-> a2, shown |-> "image", image |-> img,
                    patches |-> draw_annotations(a2, f.name), raised |-> FALSE] :
                      img \in Normalize(f.pix)}

\* on_select without the abs()
SelectionSigned(x1, y1, x2, y2) ==
    Rect(min(x1, x2), min(y1, y2), Minus(x2, x1), Minus(y2, y1))

\* the rectangle on_select stores for a press at (x1, y1), a release at (x2, y2)
Selection(x1, y1, x2, y2) ==
    Rect(min(x1, x2), min(y1, y2), abs(Minus(x2, x1)), abs(Minus(y2, y1)))

\* writer.writerow for each entry in turn: the rows written, which end before
\* the first entry whose name the file object cannot encode
Written(combined) ==
    LET bad == {i \in DOMAIN combined : ~Encodable(combined[i].k)}
        n == IF bad = {} THEN Len(combined)
             ELSE (CHOOSE i \in bad : \A j \in bad : i <= j) - 1
    IN  [i \in 1..n |-> RowOf(combined[i].k, combined[i].v)]

\* save_annotations returns; otherwise a writerow raised UnicodeEncodeError
Writable(existing, ann) ==
    \A i \in DOMAIN Merge(existing, ann) : Encodable(Merge(existing, ann)[i].k)

\* save_annotations that writes self.annotations alone
WriteFileNewOnly(old, existing, ann) == File(<<Header>> \o Written(ann))

\* the file save_annotations leaves, whether it returns or raises: mode 'w'
\* discards the old content, and the header and the rows written before a
\* failing writerow are flushed when the file is closed
WriteFile(old, existing, ann) == File(<<Header>> \o Written(Merge(existing, ann)))

\* next_image with the bound off by one, previous_image without its bound
NextIndexOffByOne(idx, n) == IF idx < n THEN idx + 1 ELSE idx

PrevIndexUnclamped(idx) == idx - 1

\* next_image, previous_image: the index each moves to
NextIndex(idx, n) == IF idx < n - 1 THEN idx + 1 ELSE idx

PrevIndex(idx) == IF idx > 0 THEN idx - 1 ELSE idx

\* ------------------------------------------------------------- actions
\* an event delivered by the display loop: a button click, or a press at
\* (x1, y1) and a release at (x2, y2)
Event(op, args) == [op |-> op, args |-> args]

\* XRayLabeler(args.input, args.output)
Construct ==
    /\ pc = "new"
    /\ LET r == load_existing_annotations(disk) IN
       /\ existing_annotations' = r.d
       /\ pc' = IF r.ok THEN "constructed" ELSE "terminated"
       /\ exit_code' = IF r.ok THEN exit_code ELSE 1
       /\ raised' = ~r.ok
    /\ UNCHANGED <<tree, disk, disk0, dicom_files, current_index, annotations,
                   shown, image, patches, last, drawn, saved>>

\* labeler.start_labeling(): scan_directory, setup_display, then the event loop
StartLabeling ==
    /\ pc = "constructed"
    /\ LET s == scan_directory(tree) IN
       /\ dicom_files' = s.files
       /\ IF s.exit
          THEN /\ pc' = "terminated"
               /\ exit_code' = 1
               /\ UNCHANGED <<annotations, shown, image, patches, raised>>
          ELSE \E r \in load_current_image(s.files, current_index,
                                           existing_annotations, annotations,
                                           shown, image, patches) :
                  /\ pc' = IF r.raised THEN "terminated" ELSE "viewing"
                  /\ exit_code' = IF r.raised THEN 1 ELSE exit_code
                  /\ annotations' = r.annotations
                  /\ shown' = r.shown
                  /\ image' = r.image
                  /\ patches' = r.patches
                  /\ raised' = r.raised
    /\ UNCHANGED <<tree, disk, disk0, existing_annotations, current_index,
                   last, drawn, saved>>

\* the shared tail of next_image and previous_image: move, then re-render
MoveTo(idx) ==
    IF idx # current_index
    THEN \E r \in load_current_image(dicom_files, idx, existing_annotations,
                                     annotations, shown, image, patches) :
             /\ current_index' = idx
             /\ annotations' = r.annotations
             /\ shown' = r.shown
             /\ image' = r.image
             /\ patches' = r.patches
             /\ raised' = r.raised
    ELSE /\ raised' = FALSE
         /\ UNCHANGED <<current_index, annotations, shown, image, patches>>

next_image ==
    /\ pc = "viewing"
    /\ MoveTo(NextIndex(current_index, Len(dicom_files)))
    /\ last' = Event("next", <<>>)
    /\ UNCHANGED <<pc, exit_code, tree, disk, disk0, existing_annotations,
                   dicom_files, drawn, saved>>

previous_image ==
    /\ pc = "viewing"
    /\ MoveTo(PrevIndex(current_index))
    /\ last' = Event("previous", <<>>)
    /\ UNCHANGED <<pc, exit_code, tree, disk, disk0, existing_annotations,
                   dicom_files, drawn, saved>>

\* on_select updating in place the entry the render took from the existing
\* layer, which is the same dict object in both layers
OnSelectThroughAlias(x1, y1, x2, y2) ==
    /\ pc = "viewing"
    /\ InRange(dicom_files, current_index)
    /\ LET current_file == Item(dicom_files, current_index).name IN
       /\ annotations' = Put(annotations, current_file, Selection(x1, y1, x2, y2))
       /\ existing_annotations' =
              IF Has(existing_annotations, current_file)
              THEN Put(existing_annotations, current_file, Selection(x1, y1, x2, y2))
              ELSE existing_annotations
       /\ patches' = draw_annotations(annotations', current_file)
    /\ drawn' = TRUE
    /\ saved' = FALSE
    /\ raised' = FALSE
    /\ last' = Event("select", <<x1, y1, x2, y2>>)
    /\ UNCHANGED <<pc, exit_code, tree, disk, disk0, dicom_files,
                   current_index, shown, image>>

\* on_select(eclick, erelease), the events' xdata and ydata
on_select(x1, y1, x2, y2) ==
    /\ pc = "viewing"
    /\ InRange(dicom_files, current_index)
    /\ LET current_file == Item(dicom_files, current_index).name IN
       /\ annotations' = Put(annotations, current_file, Selection(x1, y1, x2, y2))
       /\ patches' = draw_annotations(annotations', current_file)
    /\ drawn' = TRUE
    /\ saved' = FALSE
    /\ raised' = FALSE
    /\ last' = Event("select", <<x1, y1, x2, y2>>)
    /\ UNCHANGED <<pc, exit_code, tree, disk, disk0, existing_annotations, dicom_files,
                   current_index, shown, image>>

\* a drag on the axes that the selector passes on
DrawRectangle ==
    /\ pc = "viewing"
    /\ InRange(dicom_files, current_index)
    /\ \E a, b \in Extent(Item(dicom_files, current_index)),
          c, d \in ExtentY(Item(dicom_files, current_index)) :
           /\ Accepted(a, b)
           /\ Accepted(c, d)
           /\ on_select(a.data, c.data, b.data, d.data)

\* save_annotations that also moves what it wrote into the existing layer
SaveAndCommit ==
    /\ pc = "viewing"
    /\ disk' = WriteFile(disk, existing_annotations, annotations)
    /\ raised' = ~Writable(existing_annotations, annotations)
    /\ existing_annotations' = Merge(existing_annotations, annotations)
    /\ annotations' = <<>>
    /\ saved' = TRUE
    /\ last' = Event("save", <<>>)
    /\ UNCHANGED <<pc, exit_code, tree, disk0, dicom_files, current_index,
                   shown, image, patches, drawn>>

\* the Save button; an exception of the callback is reported and the event
\* loop goes on
save_annotations ==
    /\ pc = "viewing"
    /\ disk' = WriteFile(disk, existing_annotations, annotations)
    /\ raised' = ~Writable(existing_annotations, annotations)
    /\ saved' = TRUE
    /\ last' = Event("save", <<>>)
    /\ UNCHANGED <<pc, exit_code, tree, disk0, existing_annotations,
                   dicom_files, current_index, annotations, shown, image, patches, drawn>>

\* closing the window with a save forced first
CloseWindowSaving ==
    /\ pc = "viewing"
    /\ pc' = "terminated"
    /\ exit_code' = 0
    /\ disk' = WriteFile(disk, existing_annotations, annotations)
    /\ existing_annotations' = <<>>
    /\ dicom_files' = <<>>
    /\ current_index' = 0
    /\ annotations' = <<>>
    /\ shown' = "none"
    /\ image' = <<>>
    /\ patches' = <<>>
    /\ UNCHANGED <<raised, tree, disk0, last, drawn, saved>>

\* the window is closed: plt.show() returns, main() ends and the labeler
\* object and its figure are gone with the process
CloseWindow ==
    /\ pc = "viewing"
    /\ pc' = "terminated"
    /\ exit_code' = 0
    /\ existing_annotations' = <<>>
    /\ dicom_files' = <<>>
    /\ current_index' = 0
    /\ annotations' = <<>>
    /\ shown' = "none"
    /\ image' = <<>>
    /\ patches' = <<>>
    /\ UNCHANGED <<raised, tree, disk, disk0, last, drawn, saved>>

Next ==
    \/ Construct
    \/ StartLabeling
    \/ next_image
    \/ previous_image
    \/ DrawRectangle
    \/ save_annotations
    \/ CloseWindow

\* ------------------------------------------------------------- inputs
\* the sequences over a set, up to a length
RECURSIVE SeqsUpTo(_, _)
SeqsUpTo(S, n) ==
    IF n = 0 THEN {<<>>}
    ELSE LET shorter == SeqsUpTo(S, n - 1)
         IN  shorter \cup
             {Append(s, e) : s \in {t \in shorter : Len(t) = n - 1}, e \in S}

\* directory trees: no path twice
Trees(pool, n) ==
    {t \in SeqsUpTo(pool, n) :
        \A i, j \in DOMAIN t :
            (t[i].dir = t[j].dir /\ t[i].name = t[j].name) => i = j}

\* a file decoding to a black square image of the given side; side 0 stands
\* for a file neither decoder reads
NamedFile(dir, name, size) ==
    [dir |-> dir, name |-> name, size |-> size, height |-> size,
     pix |-> [i \in 1..(size * size) |-> 0]]

ImageFile(dir, stem, ext, size) == NamedFile(dir, FileName(stem, ext), size)

\* a file decoding to one row of the given pixel values
PixelFile(dir, stem, ext, pixels) ==
    [dir |-> dir, name |-> FileName(stem, ext), size |-> Len(pixels), height |-> 1,
     pix |-> pixels]

InitWith(t, f) ==
    /\ pc = "new"
    /\ exit_code = 0
    /\ raised = FALSE
    /\ tree = t
    /\ disk = f
    /\ disk0 = f
    /\ existing_annotations = <<>>
    /\ dicom_files = <<>>
    /\ current_index = 0
    /\ annotations = <<>>
    /\ shown = "none"
    /\ image = <<>>
    /\ patches = <<>>
    /\ last = Event("none", <<>>)
    /\ drawn = FALSE
    /\ saved = FALSE

\* --- sessions: DICOM images two pixels and one pixel wide and one that
\* neither decoder reads, two of them sharing a name
SessionFiles ==
    {ImageFile("d1", "a", "dcm", 2), ImageFile("d2", "a", "dcm", 0),
     ImageFile("d1", "b", "dcm", 1)}

\* output files of earlier sessions
SessionDisks ==
    {Absent,
     WriteFile(Absent, <<>>, <<[k |-> FileName("z", "dcm"), v |-> Box(0, 15, 10, 0)],
                               [k |-> FileName("b", "dcm"), v |-> Box(5, 5, 10, 10)]>>)}

Init == \E t \in Trees(SessionFiles, MaxFiles), f \in SessionDisks : InitWith(t, f)

Spec == Init /\ [][Next]_vars

\* --- names: a one-pixel image whose name on disk holds the byte 0xFF, which
\* is no UTF-8 and is listed as the lone surrogate U+DCFF, beside b.dcm
SurrogateName == <<"a", "U+DCFF">> \o Text(".dcm")

NameFiles == {NamedFile("d1", SurrogateName, 1), ImageFile("d1", "b", "dcm", 1)}

NameDisks ==
    {Absent,
     WriteFile(Absent, <<>>, <<[k |-> FileName("b", "dcm"), v |-> Box(5, 5, 10, 10)]>>)}

InitNames == \E t \in Trees(NameFiles, MaxFiles), f \in NameDisks : InitWith(t, f)

SpecNames == InitNames /\ [][Next]_vars

\* --- loading: two one-pixel images, every short output file over a pool of rows
LoadTree == <<ImageFile("d1", "a", "dcm", 1), ImageFile("d1", "b", "dcm", 1)>>

\* rows as repr() writes them (a signed zero, inf, nan and an exponent among
\* them), rows with numbers written otherwise (no fraction, no integer part,
\* an exponent, a space, an underscore, a digit of another script), a long
\* row, short rows, an empty row and a row with a field that is no number
RowPool ==
    {RowOf(FileName("a", "dcm"), Box(-5, 5, 10, 15)),
     RowOf(FileName("z", "dcm"), Box(10, 0, 0, 25)),
     RowOf(FileName("b", "dcm"),
           Rect(Zero(TRUE), Inf(FALSE), NaN, Scaled(1, 16))),
     <<FileName("a", "dcm"), <<"1">>, <<".", "5">>, <<"1", "e", "2">>,
       <<" ", "1", "_", "0">>>>,
     <<FileName("z", "dcm"), <<"U+0661">>, <<"-", "0", ".", "0">>,
       <<"I", "n", "f">>, <<"n", "a", "n">>>>,
     RowOf(FileName("b", "dcm"), Box(10, 10, 0, 10)) \o <<<<"n", "o", "t", "e">>>>,
     <<FileName("a", "dcm"), <<"5">>, <<"1", "0">>>>,
     SubSeq(RowOf(FileName("b", "dcm"), Box(10, 10, 10, 10)), 1, 4),
     <<>>,
     <<FileName("b", "dcm"), <<"x">>, <<"0", ".", "0">>, <<"1">>, <<"1">>>>}

FirstRows == {Header, RowOf(FileName("a", "dcm"), Box(20, 20, 20, 20))}

\* a text of n characters
LongText(n) == [i \in 1..n |-> "a"]

GoodRow == RowOf(FileName("a", "dcm"), Box(10, 20, 30, 40))

\* files with a field at or over the reader's limit: a name at the limit, a
\* name over it, a short row with a field over it after a row that loads, and
\* a first row with a field over it
LongDisks ==
    {File(<<Header, RowOf(LongText(FieldLimit), Box(10, 20, 30, 40))>>),
     File(<<Header, RowOf(LongText(FieldLimit + 1), Box(10, 20, 30, 40))>>),
     File(<<Header, GoodRow, <<FileName("b", "dcm"), LongText(FieldLimit + 1)>>>>),
     File(<<<<LongText(FieldLimit + 1)>>, GoodRow>>)}

LoadDisks ==
    {Absent, File(<<>>)} \cup LongDisks \cup
    {File(<<first>> \o rows) : first \in FirstRows, rows \in SeqsUpTo(RowPool, MaxRows)}

InitLoad == \E f \in LoadDisks : InitWith(LoadTree, f)

SpecLoad == InitLoad /\ [][Next]_vars

\* --- scanning: every short listing of one-pixel files of the four kinds
ScanFiles ==
    {ImageFile(d, "a", e, 1) : d \in {"d1", "d2"}, e \in {"dcm", "jpg", "png", "txt"}}

ScanDisks ==
    {Absent,
     WriteFile(Absent, <<>>, <<[k |-> FileName("a", "jpg"), v |-> Box(10, 0, 20, 10)]>>)}

InitScan == \E t \in Trees(ScanFiles, MaxFiles), f \in ScanDisks : InitWith(t, f)

SpecScan == InitScan /\ [][Next]_vars

\* --- selecting: one image of every width up to MaxCoord + 1 pixels
InitRect ==
    \E s \in 1..(MaxCoord + 1) : InitWith(<<ImageFile("d1", "a", "dcm", s)>>, Absent)

SpecRect == InitRect /\ [][Next]_vars

\* sessions over images of one name in two subdirectories, the name loaded
\* from the output file or not
SharedFiles ==
    {ImageFile("d1", "a", "dcm", 2), ImageFile("d2", "a", "dcm", 1),
     ImageFile("d1", "b", "dcm", 1)}

SharedDisks ==
    {Absent,
     WriteFile(Absent, <<>>, <<[k |-> FileName("a", "dcm"), v |-> Box(0, 0, 10, 10)]>>)}

InitShared ==
    \E t \in Trees(SharedFiles, MaxFiles), f \in SharedDisks : InitWith(t, f)

SpecShared == InitShared /\ [][Next]_vars

\* --- rendering: one image of every row of pixels up to MaxPixels long, the
\* values -1 and the grey levels up to MaxLevel * PixelStep, with at most one
\* negative pixel under a positive maximum
PixelStep == 200

PixelRows ==
    {px \in SeqsUpTo({-1} \cup {l * PixelStep : l \in 0..MaxLevel}, MaxPixels) :
        /\ px # <<>>
        /\ (SetMax(Range(px)) <= 0
               \/ Cardinality({i \in DOMAIN px : px[i] < 0}) <= 1)}

InitPixels ==
    \E px \in PixelRows : InitWith(<<PixelFile("d1", "a", "dcm", px)>>, Absent)

SpecPixels == InitPixels /\ [][Next]_vars

\* ------------------------------------------------------------- properties
\* the name of the file at the current index
CurrentName == Item(dicom_files, current_index).name

DataRows(f) == Tail(f.rows)

\* the annotation a written row reads back as
RowValue(row) ==
    Rect(ParseFloat(row[2]).val, ParseFloat(row[3]).val,
         ParseFloat(row[4]).val, ParseFloat(row[5]).val)

IsNumber(t) == ParseFloat(t).ok

MergedNames == Keys(existing_annotations) \cup Keys(annotations)

MergedValue(n) ==
    IF Has(annotations, n) THEN Get(annotations, n) ELSE Get(existing_annotations, n)

\* C1: right after Save the output file is the header row followed by exactly
\* one row per file name of the existing or the new layer, and the row of a
\* name carries the new layer's values if the name is in the new layer and the
\* existing layer's values otherwise.
C1_SaveMergesNewWins ==
    (last.op = "save" /\ pc = "viewing") =>
        /\ disk.exists
        /\ Len(disk.rows) = 1 + Cardinality(MergedNames)
        /\ disk.rows[1] = Header
        /\ \A n \in MergedNames :
               \E i \in 2..Len(disk.rows) :
                   /\ Len(disk.rows[i]) = 5
                   /\ disk.rows[i][1] = n
                   /\ \A j \in 2..5 : IsNumber(disk.rows[i][j])
                   /\ RowValue(disk.rows[i]) = MergedValue(n)

\* C2: an entry of the new layer keeps its values across every step, Next,
\* Previous and Save included, except a rectangle selection completed while a
\* file of that name is displayed.  (An entry is either a copy of the existing
\* layer's or a drawn one, so only a drawn one can be seen to change.)
C2_DrawnAnnotationPersists ==
    [][pc' = "viewing" =>
         \A n \in Keys(annotations) :
             \/ Has(annotations', n) /\ Get(annotations', n) = Get(annotations, n)
             \/ DrawRectangle /\ CurrentName = n]_vars

\* C3: once the enumerator has succeeded the index is within the file list.
C3_IndexInRange ==
    dicom_files # <<>> => current_index \in 0..(Len(dicom_files) - 1)

\* Next has moved the index to the end of a list of several files
C3_Witness ==
    /\ pc = "viewing"
    /\ Len(dicom_files) >= 2
    /\ last.op = "next"
    /\ current_index = Len(dicom_files) - 1

\* C4: Next at the last index and Previous at index 0 leave the index as it
\* is, Next elsewhere adds exactly 1, Previous elsewhere subtracts exactly 1,
\* and neither raises an error.
C4_NavigationClamped ==
    [][/\ next_image =>
            /\ ~raised'
            /\ current_index' = IF current_index = Len(dicom_files) - 1
                                THEN current_index ELSE current_index + 1
       /\ previous_image =>
            /\ ~raised'
            /\ current_index' = IF current_index = 0
                                THEN current_index ELSE current_index - 1]_vars

\* Next was pressed on the only file of a list: the index is still 0
C4_Witness ==
    /\ pc = "viewing"
    /\ Len(dicom_files) = 1
    /\ last.op = "next"
    /\ current_index = 0
    /\ ~raised

\* C5: the rectangle stored for a press at (x1, y1) and a release at (x2, y2)
\* has x and y the smaller of the two coordinates, width and height their
\* distance, so neither is negative, and it is the rectangle of the swapped
\* corners, of the corners with only x swapped and with only y swapped.
C5_SelectionNormalized ==
    (last.op = "select" /\ pc = "viewing") =>
        LET x1 == last.args[1]
            y1 == last.args[2]
            x2 == last.args[3]
            y2 == last.args[4]
            a == Get(annotations, CurrentName)
        IN  /\ Has(annotations, CurrentName)
            /\ a.x \in {x1, x2} /\ ~FloatLess(x1, a.x) /\ ~FloatLess(x2, a.x)
            /\ a.y \in {y1, y2} /\ ~FloatLess(y1, a.y) /\ ~FloatLess(y2, a.y)
            /\ ~FloatLess(a.width, Zero(FALSE))
            /\ a.width \in {Minus(x2, x1), Minus(x1, x2)}
            /\ ~FloatLess(a.height, Zero(FALSE))
            /\ a.height \in {Minus(y2, y1), Minus(y1, y2)}
            /\ a = Selection(x2, y2, x1, y1)
            /\ a = Selection(x2, y1, x1, y2)
            /\ a = Selection(x1, y2, x2, y1)

\* a drag from the right to the left and from the top to the bottom
C5_Witness ==
    /\ last.op = "select"
    /\ pc = "viewing"
    /\ FloatLess(last.args[3], last.args[1])
    /\ FloatLess(last.args[2], last.args[4])
    /\ Get(annotations, CurrentName).x = Scaled(-5, -1)
    /\ Get(annotations, CurrentName).width = FloatOf(MaxCoord + 1)

\* a file save_annotations can have written: the header, then rows of a name
\* and four numbers as str() writes them, no name twice
IsSaveOutput(f) ==
    /\ f.exists
    /\ f.rows # <<>>
    /\ f.rows[1] = Header
    /\ \A i \in 2..Len(f.rows) : Len(f.rows[i]) = 5
    /\ \A i \in 2..Len(f.rows) :
           /\ \A j \in 2..5 :
                  /\ IsNumber(f.rows[i][j])
                  /\ FormatFloat(ParseFloat(f.rows[i][j]).val) = f.rows[i][j]
           /\ \A k \in 2..Len(f.rows) : f.rows[k][1] = f.rows[i][1] => k = i

\* C6: a session started on a file that Save wrote, and saving with no
\* rectangle drawn, writes every original data row and no other row.
C6_RoundTrip ==
    (last.op = "save" /\ ~drawn /\ IsSaveOutput(disk0)) =>
        /\ Range(DataRows(disk)) = Range(DataRows(disk0))
        /\ Len(disk.rows) = Len(disk0.rows)

\* such a Save, of a file with a row for a displayed image and a row for a
\* file that is not in the list
C6_Witness ==
    /\ IsSaveOutput(disk0)
    /\ Len(disk0.rows) = 3
    /\ ~drawn
    /\ last.op = "save"
    /\ pc = "viewing"
    /\ annotations # <<>>
    /\ Keys(existing_annotations) \ Keys(annotations) # {}

\* C7: a Save with an earlier Save and no rectangle selection between them,
\* whatever Next and Previous there were, leaves the file as the earlier Save
\* left it: both wrote the same rows in the same order.
C7_SaveIdempotent == [][(saved /\ save_annotations) => disk' = disk]_vars

\* the rows after the first that have at least 5 fields
LongRows(f) == {i \in 2..Len(f.rows) : Len(f.rows[i]) >= 5}

Constructed == pc # "new"

\* the constructor raised: the process ended before any file was listed
LoadRaised == pc = "terminated" /\ raised /\ last.op = "none" /\ dicom_files = <<>>

\* C8: with no output file the existing layer is empty and nothing is raised;
\* with one that has a first row, loading raises nothing, every row after the
\* first with at least 5 fields is the existing layer's annotation for the
\* name in its first field, and a shorter row creates no annotation.
C8_EveryLongRowLoaded ==
    Constructed =>
        /\ ~disk0.exists => existing_annotations = <<>> /\ ~LoadRaised
        /\ (disk0.exists /\ disk0.rows # <<>>) =>
               /\ ~LoadRaised
               /\ pc \in {"constructed", "viewing"} =>
                      /\ \A i \in LongRows(disk0) :
                             /\ Has(existing_annotations, disk0.rows[i][1])
                             /\ Get(existing_annotations, disk0.rows[i][1])
                                    = RowValue(disk0.rows[i])
                      /\ Keys(existing_annotations)
                             = {disk0.rows[i][1] : i \in LongRows(disk0)}

IsKind(f, ext) == Matches(f.name, ext)

TreeHas(ext) == \E i \in DOMAIN tree : IsKind(tree[i], ext)

\* C9: with a DICOM file in the tree the list is exactly the DICOM files of
\* the tree; with none it is exactly the JPEG and PNG files, no PNG before a
\* JPEG; no list holds a DICOM file and a JPEG or PNG file.
C9_FormatExclusive ==
    dicom_files # <<>> =>
        /\ \A i, j \in DOMAIN dicom_files : dicom_files[i] = dicom_files[j] => i = j
        /\ TreeHas("dcm") =>
               Range(dicom_files) = {f \in Range(tree) : IsKind(f, "dcm")}
        /\ ~TreeHas("dcm") =>
               /\ Range(dicom_files)
                      = {f \in Range(tree) : IsKind(f, "jpg") \/ IsKind(f, "png")}
               /\ \A i, j \in DOMAIN dicom_files :
                      (IsKind(dicom_files[i], "png") /\ IsKind(dicom_files[j], "jpg"))
                          => j < i
        /\ ~ /\ \E f \in Range(dicom_files) : IsKind(f, "dcm")
             /\ \E f \in Range(dicom_files) : IsKind(f, "jpg") \/ IsKind(f, "png")

\* a session on a tree that lists a PNG file before a DICOM file
C9_Witness ==
    /\ pc = "viewing"
    /\ \E i, j \in DOMAIN tree :
           i < j /\ IsKind(tree[i], "png") /\ IsKind(tree[j], "dcm")
    /\ Len(dicom_files) = 1

NoImages == ~TreeHas("dcm") /\ ~TreeHas("jpg") /\ ~TreeHas("png")

\* C10: on a tree with no DICOM, JPEG or PNG file the session never views an
\* image, no event is handled, the process once past start_labeling has
\* terminated with a status other than 0, and the output file stays as it
\* was before startup.
C10_NoImagesTerminates ==
    NoImages =>
        /\ pc \in {"new", "constructed", "terminated"}
        /\ pc = "terminated" => exit_code # 0
        /\ last.op = "none"
        /\ shown = "none"
        /\ disk = disk0

\* terminated by the enumerator on a tree of non-image files, the output file
\* of an earlier session loaded before
C10_Witness ==
    /\ NoImages
    /\ tree # <<>>
    /\ pc = "terminated"
    /\ exit_code = 1
    /\ ~raised
    /\ disk0.exists
    /\ existing_annotations # <<>>
    /\ disk = disk0

\* C11: only a Save step changes the output file: startup, rendering, Next,
\* Previous, a rectangle selection and closing the window leave it as it is,
\* so a session that handled no Save ends with the file it started with.
C11_OnlySaveWrites ==
    [][(last'.op # "save" \/ pc' # "viewing") => disk' = disk]_vars

\* the window closed on a drawn rectangle that was never saved, the output
\* file of an earlier session still as it was
C11_Witness ==
    /\ pc = "terminated"
    /\ exit_code = 0
    /\ last.op = "select"
    /\ drawn
    /\ disk0.exists
    /\ disk = disk0

\* C12: a Save step leaves the index, the displayed image and rectangle, the
\* file list and both layers unchanged.
C12_SaveChangesOnlyFile ==
    [][(last'.op = "save" /\ pc' = "viewing") =>
           UNCHANGED <<current_index, shown, image, patches, dicom_files,
                       existing_annotations, annotations>>]_vars

\* a Save that rewrote the file while the second image showed a rectangle
C12_Witness ==
    /\ last.op = "save"
    /\ pc = "viewing"
    /\ current_index >= 1
    /\ shown = "image"
    /\ patches # <<>>
    /\ annotations # <<>>
    /\ disk # disk0

\* the file at list position idx is one neither decoder reads
Undecodable(idx) == dicom_files[idx + 1].size = 0

\* C13: a render of a file neither decoder reads leaves the session viewing
\* that index with the error text in place of the image, no outline, both
\* layers as they were and no exception escaping; from such a state Next and
\* Previous are enabled and move the index as from any other viewing state.
C13_DecodeFailureNonFatal ==
    /\ [][(/\ pc \in {"constructed", "viewing"}
           /\ dicom_files' # <<>>
           /\ exit_code' = 0
           /\ (pc = "constructed" \/ current_index' # current_index)
           /\ dicom_files'[current_index' + 1].size = 0)
          => /\ pc' = "viewing"
             /\ ~raised'
             /\ shown' = "error"
             /\ patches' = <<>>
             /\ annotations' = annotations
             /\ existing_annotations' = existing_annotations]_vars
    /\ []((pc = "viewing" /\ shown = "error")
             => (ENABLED next_image /\ ENABLED previous_image))
    /\ [][(pc = "viewing" /\ shown = "error" /\ next_image)
             => /\ pc' = "viewing"
                /\ ~raised'
                /\ current_index' = NextIndex(current_index, Len(dicom_files))]_vars
    /\ [][(pc = "viewing" /\ shown = "error" /\ previous_image)
             => /\ pc' = "viewing"
                /\ ~raised'
                /\ current_index' = PrevIndex(current_index)]_vars

\* Next reached a file that cannot be decoded, with a drawn rectangle held in
\* the new layer
C13_Witness ==
    /\ pc = "viewing"
    /\ shown = "error"
    /\ last.op = "next"
    /\ current_index >= 1
    /\ Undecodable(current_index)
    /\ annotations # <<>>
    /\ patches = <<>>

\* the data rows a Save at this moment leaves in the file
SavedRows == DataRows(WriteFile(disk, existing_annotations, annotations))

\* C14: while an image is displayed, and right after a rectangle selection,
\* there is one outline if the current file's name is in the existing or the
\* new layer and none otherwise, never two, and the outline is the rectangle
\* a Save at that moment writes for that name.
C14_OverlayConsistent ==
    (pc = "viewing" /\ (shown = "image" \/ last.op = "select")) =>
        /\ Len(patches) = IF CurrentName \in MergedNames THEN 1 ELSE 0
        /\ \A i \in DOMAIN patches :
               \E j \in DOMAIN SavedRows :
                   /\ SavedRows[j][1] = CurrentName
                   /\ RowValue(SavedRows[j]) = patches[i]

\* C15: from the first render on, no step of the session (Next, Previous,
\* a rectangle selection, Save) changes the file list or the existing layer.
C15_ListAndExistingReadOnly ==
    [][(pc = "viewing" /\ pc' = "viewing") =>
           /\ dicom_files' = dicom_files
           /\ existing_annotations' = existing_annotations]_vars

\* a rectangle drawn over an entry the render copied from the existing layer:
\* the new layer differs, the existing layer still holds the loaded values
C15_Witness ==
    /\ pc = "viewing"
    /\ shown = "image"
    /\ last.op = "select"
    /\ Has(existing_annotations, CurrentName)
    /\ Get(annotations, CurrentName) # Get(existing_annotations, CurrentName)
    /\ existing_annotations = load_existing_annotations(disk0).d

\* what a render of list position idx shows and a Save after it writes, from
\* the layers as they are
RenderAt(idx) ==
    load_current_image(dicom_files, idx, existing_annotations, annotations,
                       shown, image, patches)

\* C16: a rectangle selection keeps the index, sets the new-layer entry of the
\* current file's name to the selection and leaves every other name's entry
\* as it was; every other list position carrying the same name then shows the
\* selection when rendered, and a Save after that render writes the selection
\* for the name.
C16_DrawKeyedByName ==
    [][DrawRectangle =>
          LET sel == Selection(last'.args[1], last'.args[2],
                               last'.args[3], last'.args[4])
          IN  /\ current_index' = current_index
              /\ Keys(annotations') = Keys(annotations) \cup {CurrentName}
              /\ Get(annotations', CurrentName) = sel
              /\ \A n \in Keys(annotations) \ {CurrentName} :
                     Get(annotations', n) = Get(annotations, n)
              /\ \A i \in DOMAIN dicom_files :
                     (/\ i # current_index + 1
                      /\ dicom_files[i].name = CurrentName
                      /\ dicom_files[i].size > 0)
                     => \A r \in RenderAt(i - 1)' :
                            /\ r.patches = <<sel>>
                            /\ Get(r.annotations, CurrentName) = sel]_vars

\* the pixels the decoder gave for the file at the current index
CurrentPixels == Item(dicom_files, current_index).pix

\* C17: a decoded image is always displayed, never the error text; when its
\* largest pixel is not above 0 the array displayed is the decoded one, and
\* when it is above 0 and no pixel is negative every displayed pixel is in
\* 0..255 and a pixel at the maximum is displayed as 255.
C17_RescaleGuarded ==
    (pc = "viewing" /\ ~Undecodable(current_index)) =>
        LET m == SetMax(Range(CurrentPixels)) IN
        /\ shown = "image"
        /\ ~raised
        /\ DOMAIN image = DOMAIN CurrentPixels
        /\ (m <= 0) => image = CurrentPixels
        /\ (m > 0 /\ \A i \in DOMAIN CurrentPixels : CurrentPixels[i] >= 0) =>
               /\ \A i \in DOMAIN image :
                      /\ image[i] \in 0..255
                      /\ (CurrentPixels[i] = m) => image[i] = 255

\* a 16-bit image displayed with its brightest pixel at 255, a black one at 0
\* and a darker one strictly between, its quotient rounded towards zero
C17_Witness ==
    /\ pc = "viewing"
    /\ shown = "image"
    /\ SetMax(Range(CurrentPixels)) > 255
    /\ \E i, j, k \in DOMAIN image :
           /\ image[i] = 255
           /\ image[j] \in 1..254
           /\ CurrentPixels[j] * 255 # image[j] * SetMax(Range(CurrentPixels))
           /\ image[k] = 0

====
